---- MODULE Spec2Model ----
(***************************************************************************)
(* A model of infoservant (src/infoservant/infoservant_impl.py).           *)
(*                                                                         *)
(* Strings are sequences of tokens: a token is a word, a sentinel, a       *)
(* prompt or one whitespace character.  Python lists live in a heap of     *)
(* list objects and are passed by reference, so that appending to a list   *)
(* through one name is seen through every other name of the same list.     *)
(*                                                                         *)
(* Two entry points are modelled: _call_gpt applied to one argument        *)
(* against a scripted endpoint (entry = "call_gpt"), and a whole run of    *)
(* infoservant against an unconstrained endpoint (entry = "infoservant").  *)
(***************************************************************************)
EXTENDS Integers, Sequences, FiniteSets, TLC

VARIABLES
    entry,              \* which function was invoked: "call_gpt", "infoservant"
                        \* or "run_one_research_task"
    pc,                 \* position of the (single) thread of control
    heap,               \* the list objects: heap[r] is the content of list r
    input,              \* the argument of the direct call (_call_gpt's
                        \* `conversation`, _run_one_research_task's `task` as passed)
    script,             \* the scripted endpoint's replies, in order (direct call)
    received,           \* the outcomes the endpoint has produced so far
    requests,           \* number of chat.completions.create calls issued
    submitted,          \* the `messages` argument of the latest request
    retval,             \* value returned by the function that returned last
    error,              \* exception that escaped, "none" if none
    args,               \* infoservant's arguments: command, serp_api_key, seconds_permitted
    convo_intro,        \* reference of infoservant's convo_intro list (0: none yet)
    conversation,       \* reference of the running helper's local list (0: none)
    intro_at_call,      \* content of convo_intro when the running helper was entered
    plan,               \* the planning reply of _research_cycle (nextsteps)
    tasks,              \* _research_cycle's task list
    inflight,           \* indices of tasks whose external call has started, not ended
    calls,              \* log of external fetch/search calls: start and end events
    task_ret            \* the boolean the direct _run_one_research_task call returned

vars == << entry, pc, heap, input, script, received, requests, submitted, retval,
           error, args, convo_intro, conversation, intro_at_call, plan, tasks,
           inflight, calls, task_ret >>

-----------------------------------------------------------------------------
(* Bounds of the model *)

\* longest endpoint script of the direct call
MaxReplies == 3
\* longest list passed to the direct call
MaxConvLen == 2
\* most URLs in one planning reply
MaxUrls == 2
\* most SerpApi calls in one planning reply
MaxSearches == 1

-----------------------------------------------------------------------------
(* Text *)

IsSpace(t) == t \in {" ", "\n"}

RECURSIVE LStrip(_)
LStrip(s) == IF s # << >> /\ IsSpace(Head(s)) THEN LStrip(Tail(s)) ELSE s

RECURSIVE RStrip(_)
RStrip(s) ==
    IF s # << >> /\ IsSpace(s[Len(s)]) THEN RStrip(SubSeq(s, 1, Len(s) - 1)) ELSE s

\* str.strip()
strip(s) == RStrip(LStrip(s))

\* x in s, for a one-token x
Contains(s, x) == \E i \in 1..Len(s) : s[i] = x

\* the index of the first x in s from position i on, Len(s)+1 if there is none
RECURSIVE FindFrom(_, _, _)
FindFrom(s, x, i) ==
    IF i > Len(s) THEN Len(s) + 1
    ELSE IF s[i] = x THEN i ELSE FindFrom(s, x, i + 1)

\* s.split(x): the pieces of s between the occurrences of x
RECURSIVE split(_, _)
split(s, x) ==
    LET i == FindFrom(s, x, 1)
    IN  IF i > Len(s) THEN << s >>
        ELSE << SubSeq(s, 1, i - 1) >> \o split(SubSeq(s, i + 1, Len(s)), x)

\* s.split(x, maxsplit=1)
split1(s, x) ==
    LET i == FindFrom(s, x, 1)
    IN  IF i > Len(s) THEN << s >>
        ELSE << SubSeq(s, 1, i - 1), SubSeq(s, i + 1, Len(s)) >>

UpperTok(t) ==
    CASE t = "answer:" -> "ANSWER:"
      [] t = "yes"     -> "YES"
      [] t = "no"      -> "NO"
      [] t = "w"       -> "W"
      [] OTHER         -> t

\* str.upper()
upper(s) == [i \in 1..Len(s) |-> UpperTok(s[i])]

\* all sequences over S of length at most n
SeqsUpTo(S, n) == UNION {[1..k -> S] : k \in 0..n}

-----------------------------------------------------------------------------
(* The heap of list objects *)

\* a new list object holding `content`
Alloc(h, content) == [heap |-> Append(h, content), ref |-> Len(h) + 1]

\* list.append(x) on the list r
ListAppend(h, r, x) == [h EXCEPT ![r] = Append(@, x)]

Msg(role, content) == [role |-> role, content |-> content]

-----------------------------------------------------------------------------
(* The completion endpoint *)

\* An outcome of one request: it fails (ok = FALSE) or returns a fragment
\* with a stop reason.
Outcome(ok, content, finish) == [ok |-> ok, content |-> content, finish |-> finish]

Failure == Outcome(FALSE, << >>, "error")

StopReasons == {"stop", "length"}

-----------------------------------------------------------------------------
(* _call_gpt *)

TruncationNote ==
    << "\n", "\n",
       "...(There is more material to cover, but this response is already excessively lengthy. As such, I have to stop here for now.)" >>

\* a _call_gpt that drops the note of a truncated answer
AnswerWithoutNote(o) == strip(o.content)

\* a _call_gpt that adds the note to every answer
AnswerAlwaysNote(o) == strip(o.content \o TruncationNote)

\* lines 91-102: the answer made of one completion
Answer(o) ==
    strip(IF o.finish = "length" THEN o.content \o TruncationNote ELSE o.content)

\* a normalisation that works on a copy of a list argument
NormalizeCopy(h, in) ==
    CASE in.kind = "str"  -> Alloc(h, << Msg("user", in.text) >>)
      [] in.kind = "dict" -> Alloc(h, << in.msg >>)
      [] in.kind = "list" -> Alloc(h, h[in.ref])

\* a normalisation that gives a bare string the wrong role
NormalizeSystemRole(h, in) ==
    CASE in.kind = "str"  -> Alloc(h, << Msg("system", in.text) >>)
      [] in.kind = "dict" -> Alloc(h, << in.msg >>)
      [] in.kind = "list" -> [heap |-> h, ref |-> in.ref]

\* lines 74-77: the list the function works on
Normalize(h, in) ==
    CASE in.kind = "str"  -> Alloc(h, << Msg("user", in.text) >>)
      [] in.kind = "dict" -> Alloc(h, << in.msg >>)
      [] in.kind = "list" -> [heap |-> h, ref |-> in.ref]

\* an answer recorded under the wrong role
AssistantMessageAsUser(answer) == Msg("user", answer)

\* lines 103-108: the message appended to the conversation
AssistantMessage(answer) == Msg("assistant", answer)

\* a _call_gpt that swallows a failed request and records an empty answer
call_gpt_swallow(h, r, o) ==
    [raised |-> FALSE,
     heap   |-> ListAppend(h, r, AssistantMessage(IF o.ok THEN Answer(o) ELSE << >>)),
     answer |-> IF o.ok THEN Answer(o) ELSE << >>]

\* lines 85-110, on the list r: the request, and the answer appended to the list.
\* A failed request raises out of line 85, before anything is appended.
call_gpt(h, r, o) ==
    IF o.ok
    THEN [raised |-> FALSE,
          heap   |-> ListAppend(h, r, AssistantMessage(Answer(o))),
          answer |-> Answer(o)]
    ELSE [raised |-> TRUE, heap |-> h, answer |-> << >>]

\* line 85: one request to the endpoint, made at position `step` of the program,
\* which answers with the outcome o
Request(step, h, r, o) ==
    /\ requests' = requests + 1
    /\ submitted' = h[r]
    /\ received' = Append(received, [step |-> step, ok |-> o.ok,
                                      content |-> o.content, finish |-> o.finish])

-----------------------------------------------------------------------------
(* Inputs of the direct call of _call_gpt *)

Fragments == { << >>, << "w" >>, << " ", "w", "\n", "w", " " >> }

LengthOutcomes == { Outcome(TRUE, f, "length") : f \in Fragments }

Outcomes == { Outcome(TRUE, f, s) : f \in Fragments, s \in StopReasons } \cup { Failure }

\* An endpoint behaviour: replies flagged "length" up to a last outcome of any kind.
Scripts ==
    UNION { { p \o << l >> : p \in [1..(k - 1) -> LengthOutcomes], l \in Outcomes }
            : k \in 1..MaxReplies }

InputMessages == { Msg("user", << "w" >>), Msg("system", << " ", "w" >>) }

Inputs ==
    { [kind |-> "str", text |-> t, msg |-> Msg("user", t), ref |-> 0, list |-> << >>]
        : t \in { << "w" >>, << " ", "w" >> } }
    \cup { [kind |-> "dict", text |-> m.content, msg |-> m, ref |-> 0, list |-> << >>]
             : m \in InputMessages }
    \cup { [kind |-> "list", text |-> << >>, msg |-> Msg("user", << >>), ref |-> 1, list |-> c]
             : c \in SeqsUpTo(InputMessages, MaxConvLen) }

NoInput ==
    [kind |-> "none", text |-> << >>, msg |-> Msg("user", << >>), ref |-> 0, list |-> << >>]

NoList == [present |-> FALSE, is_list |-> FALSE, items |-> << >>]

NoPlan == [present |-> FALSE, valid |-> FALSE, urls |-> NoList, serp |-> NoList]

NoArgs == [command |-> << >>, is_str |-> TRUE, serp_api_key |-> "", seconds_permitted |-> 0]

InitCallGpt ==
    /\ entry = "call_gpt"
    /\ pc = "cg_start"
    /\ input \in Inputs
    /\ heap = IF input.kind = "list" THEN << input.list >> ELSE << >>
    /\ script \in Scripts
    /\ received = << >>
    /\ requests = 0
    /\ submitted = << >>
    /\ retval = << >>
    /\ error = "none"
    /\ args = NoArgs
    /\ convo_intro = 0
    /\ conversation = 0
    /\ intro_at_call = << >>
    /\ plan = NoPlan
    /\ tasks = << >>
    /\ inflight = {}
    /\ calls = << >>
    /\ task_ret = FALSE

\* a _call_gpt that asks for a continuation while the reply is flagged "length"
\* (an endpoint that has run out of script repeats its last reply)
CallGptDirectWithLoop ==
    /\ entry = "call_gpt" /\ pc = "cg_start"
    /\ requests < MaxReplies + 1
    /\ LET n == IF conversation = 0 THEN Normalize(heap, input)
                ELSE [heap |-> heap, ref |-> conversation]
           o == script[IF requests + 1 <= Len(script) THEN requests + 1 ELSE Len(script)]
           res == call_gpt(n.heap, n.ref, o)
       IN  /\ n.heap[n.ref] # << >>
           /\ Request("cg_start", n.heap, n.ref, o)
           /\ conversation' = n.ref
           /\ retval' = res.answer
           /\ IF res.raised
              THEN pc' = "raised" /\ error' = "APIError" /\ heap' = res.heap
              ELSE IF o.finish = "length"
              THEN /\ pc' = "cg_start" /\ error' = "none"
                   /\ heap' = ListAppend(res.heap, n.ref,
                                         Msg("user", << "Please continue from where you left off." >>))
              ELSE pc' = "returned" /\ error' = "none" /\ heap' = res.heap
    /\ UNCHANGED << task_ret, entry, input, script, args, convo_intro, intro_at_call,
                    plan, tasks, inflight, calls >>

\* _call_gpt(conversation=input, openai_client=the scripted endpoint), lines 70-110
CallGptDirect ==
    /\ entry = "call_gpt" /\ pc = "cg_start"
    /\ LET n == Normalize(heap, input)
       IN  IF n.heap[n.ref] = << >>
           THEN \* line 82: conversation[-1] of an empty list
                /\ pc' = "raised" /\ error' = "IndexError"
                /\ heap' = n.heap
                /\ conversation' = n.ref
                /\ UNCHANGED << requests, submitted, received, retval >>
           ELSE LET o == script[requests + 1]
                    res == call_gpt(n.heap, n.ref, o)
                IN  /\ Request("cg_start", n.heap, n.ref, o)
                    /\ heap' = res.heap
                    /\ conversation' = n.ref
                    /\ retval' = res.answer
                    /\ IF res.raised
                       THEN pc' = "raised" /\ error' = "APIError"
                       ELSE pc' = "returned" /\ error' = "none"
    /\ UNCHANGED << task_ret, entry, input, script, args, convo_intro, intro_at_call,
                    plan, tasks, inflight, calls >>

-----------------------------------------------------------------------------
(* infoservant: arguments, prompts and endpoint replies *)

\* command: a non-string, a blank string, a command with outer whitespace
ArgSets ==
    { [command |-> c.text, is_str |-> c.is_str, serp_api_key |-> k, seconds_permitted |-> t]
        : c \in { [text |-> << >>, is_str |-> FALSE],
                  [text |-> << " ", "\n" >>, is_str |-> TRUE],
                  [text |-> << " ", "cmd", "\n" >>, is_str |-> TRUE] },
          k \in { "", "key" },
          t \in { 0, 30 } }

\* lines 34-67
create_system_prompt(has_serpapi) ==
    IF has_serpapi
    THEN << "You're a web browsing bot called infoservant", "You can access Google Search" >>
    ELSE << "You're a web browsing bot called infoservant" >>

\* lines 119-136, 151-172, 187-214: the prompts of _sanitycheck_user_command
PromptIntelligible == Msg("user", << "Is the user's request an intelligible set of words" >>)
PromptAppropriate  == Msg("user", << "Discuss whether or not the user's input is appropriate" >>)
PromptRephrase     == Msg("user", << "Brainstorm some ways to rephrase the user's request" >>)

\* lines 234-255
PromptTimeEstimate == Msg("user", << "how quickly can the user reasonably expect an answer" >>)

\* lines 553-564
SecondsNote(secs) == Msg("system", << "The user believes that you should be able to complete this task in", secs >>)

\* lines 567-577
PromptExpectation == Msg("system", << "Make some inferences about the user's expectations" >>)

\* lines 587-596
TimeAllotment(timedur_est) ==
    Msg("assistant", << "here is what I believe to be a reasonable time allotment:" >> \o timedur_est)

\* lines 385-396: _chronometer() and the time spent
ChronometerNote == Msg("system", << "CHRONOMETER", "\n", "\n", "You've been working for some seconds" >>)

\* lines 398-412
PromptBrainstorm(serp_api_key) ==
    Msg("system", << "What URLs will you visit?" >>
                  \o (IF serp_api_key # "" THEN << "What search queries will you conduct?" >>
                      ELSE << >>))

\* lines 419-447
PromptPlanning(serp_api_key) ==
    Msg("system", << "emit a JSON structure", "urls_to_visit" >>
                  \o (IF serp_api_key # "" THEN << "serpapi_calls" >> ELSE << >>))

\* lines 493-508
PromptReport == Msg("system", << "Write a comprehensive report about what you've done so far" >>)

Reply(content) == Outcome(TRUE, content, "stop")

IntelligibleReplies ==
    { Reply(<< "w", "\n", "ANSWER:", " ", "YES" >>),
      Reply(<< "answer:", " ", "yes" >>),
      Reply(<< "ANSWER:", " ", "NO" >>),
      Reply(<< "ANSWER:", " ", "NO", "\n", "ANSWER:", " ", "YES" >>),
      Reply(<< "w" >>),
      Outcome(TRUE, << "ANSWER:" >>, "length"),
      Failure }

AppropriateReplies ==
    { Reply(<< "ANSWER:", " ", "YES" >>),
      Reply(<< "answer:", " ", "no" >>),
      Reply(<< "w", "ANSWER:", "w", "\n", "ANSWER:", " ", "YES" >>),
      Reply(<< "w" >>),
      Failure }

RephraseReplies ==
    { Reply(<< "w", "\n", "REPHRASE:", " ", "cmd2", "\n" >>),
      Reply(<< "REPHRASE:", " " >>),
      Reply(<< "rephrase:", " ", "cmd2" >>),
      Reply(<< "w" >>),
      Failure }

PlainReplies == { Reply(<< "w" >>), Failure }

TimeReplies ==
    { Reply(<< "w", "\n", "ANSWER:", " ", "5 minutes", "\n", "w" >>),
      Reply(<< "ANSWER:", "5 minutes" >>),
      Reply(<< "answer:", " ", "5 minutes" >>),
      Reply(<< "w" >>),
      Failure }

-----------------------------------------------------------------------------
(* Deep copies *)

\* a copy that is the same list object under another name
deepcopy_alias(h, r) == [heap |-> h, ref |-> r]

\* json.loads(json.dumps(convo_intro)), lines 118, 233, 383: a new list object
\* holding equal messages
deepcopy(h, r) == Alloc(h, h[r])

RECURSIVE ListExtend(_, _, _)
\* list.extend(msgs) on the list r
ListExtend(h, r, msgs) ==
    IF msgs = << >> THEN h ELSE ListExtend(ListAppend(h, r, Head(msgs)), r, Tail(msgs))

\* entering a helper: the deep copy of convo_intro and the first messages appended
EnterHelper(h, intro, msgs) ==
    LET c == deepcopy(h, intro)
    IN  [heap |-> ListExtend(c.heap, c.ref, msgs), ref |-> c.ref]

\* an exception `e` escapes to the caller of the entry function
Raise(e) == pc' = "raised" /\ error' = e

-----------------------------------------------------------------------------
(* infoservant, up to the call of _sanitycheck_user_command *)

InitInfoservant ==
    /\ entry = "infoservant"
    /\ pc = "is_start"
    /\ args \in ArgSets
    /\ input = NoInput
    /\ heap = << >>
    /\ script = << >>
    /\ received = << >>
    /\ requests = 0
    /\ submitted = << >>
    /\ retval = << >>
    /\ error = "none"
    /\ convo_intro = 0
    /\ conversation = 0
    /\ intro_at_call = << >>
    /\ plan = NoPlan
    /\ tasks = << >>
    /\ inflight = {}
    /\ calls = << >>
    /\ task_ret = FALSE

\* lines 527-547 and 118-136: the validation, convo_intro, and the entry of
\* _sanitycheck_user_command up to its first request
InfoservantStart ==
    /\ entry = "infoservant" /\ pc = "is_start"
    /\ IF ~args.is_str \/ strip(args.command) = << >>
       THEN /\ Raise("ValueError")
            /\ UNCHANGED << heap, convo_intro, conversation, intro_at_call >>
       ELSE LET intro == Alloc(heap,
                               << Msg("system", create_system_prompt(args.serp_api_key # "")),
                                  Msg("system", << "The user has issued the following command:" >>),
                                  Msg("user", strip(args.command)) >>)
                c == EnterHelper(intro.heap, intro.ref, << PromptIntelligible >>)
            IN  /\ heap' = c.heap
                /\ convo_intro' = intro.ref
                /\ conversation' = c.ref
                /\ intro_at_call' = intro.heap[intro.ref]
                /\ pc' = "sc_intelligible"
                /\ error' = "none"
    /\ UNCHANGED << task_ret, entry, input, script, received, requests, submitted, retval, args,
                    plan, tasks, inflight, calls >>

-----------------------------------------------------------------------------
(* _sanitycheck_user_command *)

\* a reading of the discussion that keeps its case
upper_identity(s) == s

\* lines 142, 178: the discussion as the sentinel is looked for in it
discussion(s) == upper(s)

\* lines 147, 183: YES after the sentinel
SaysYes(d) == Contains(split(d, "ANSWER:")[2], "YES")

\* lines 138-172: the intelligibility exchange
ScIntelligible ==
    /\ entry = "infoservant" /\ pc = "sc_intelligible"
    /\ \E o \in IntelligibleReplies :
         LET res == call_gpt(heap, conversation, o)
             d   == discussion(res.answer)
         IN  /\ Request("sc_intelligible", heap, conversation, o)
             /\ IF res.raised THEN Raise("APIError") /\ heap' = res.heap
                ELSE IF ~Contains(d, "ANSWER:") THEN Raise("RuntimeError") /\ heap' = res.heap
                ELSE IF ~SaysYes(d) THEN Raise("ValueError") /\ heap' = res.heap
                ELSE /\ heap' = ListAppend(res.heap, conversation, PromptAppropriate)
                     /\ pc' = "sc_appropriate"
                     /\ error' = "none"
    /\ UNCHANGED << task_ret, entry, input, script, retval, args, convo_intro, conversation,
                    intro_at_call, plan, tasks, inflight, calls >>

\* lines 174-214: the appropriateness exchange
ScAppropriate ==
    /\ entry = "infoservant" /\ pc = "sc_appropriate"
    /\ \E o \in AppropriateReplies :
         LET res == call_gpt(heap, conversation, o)
             d   == discussion(res.answer)
         IN  /\ Request("sc_appropriate", heap, conversation, o)
             /\ IF res.raised THEN Raise("APIError") /\ heap' = res.heap /\ retval' = retval
                ELSE IF ~Contains(d, "ANSWER:")
                THEN Raise("RuntimeError") /\ heap' = res.heap /\ retval' = retval
                ELSE IF SaysYes(d)
                THEN /\ heap' = res.heap
                     /\ retval' = << >>
                     /\ pc' = "sc_returned"
                     /\ error' = "none"
                ELSE /\ heap' = ListAppend(res.heap, conversation, PromptRephrase)
                     /\ retval' = retval
                     /\ pc' = "sc_rephrase"
                     /\ error' = "none"
    /\ UNCHANGED << task_ret, entry, input, script, args, convo_intro, conversation,
                    intro_at_call, plan, tasks, inflight, calls >>

\* lines 216-224: the rephrase exchange
ScRephrase ==
    /\ entry = "infoservant" /\ pc = "sc_rephrase"
    /\ \E o \in RephraseReplies :
         LET res == call_gpt(heap, conversation, o)
         IN  /\ Request("sc_rephrase", heap, conversation, o)
             /\ heap' = res.heap
             /\ IF res.raised THEN Raise("APIError") /\ retval' = retval
                ELSE IF ~Contains(res.answer, "REPHRASE:")
                THEN Raise("RuntimeError") /\ retval' = retval
                ELSE /\ retval' = strip(split1(res.answer, "REPHRASE:")[2])
                     /\ pc' = "sc_returned"
                     /\ error' = "none"
    /\ UNCHANGED << task_ret, entry, input, script, args, convo_intro, conversation,
                    intro_at_call, plan, tasks, inflight, calls >>

-----------------------------------------------------------------------------
(* infoservant, between its helpers *)

\* an assignment that lands one message early
SetContentOffByOne(h, r, i, content) == [h EXCEPT ![r][i - 1].content = content]

\* list[i]["content"] = content, for the 1-based position i
SetContent(h, r, i, content) == [h EXCEPT ![r][i].content = content]

\* lines 548-577: the rephrased command, the time budget note and the
\* expectation prompt, up to the request of line 578
AfterSanity ==
    /\ entry = "infoservant" /\ pc = "sc_returned"
    /\ LET h1 == IF retval # << >> THEN SetContent(heap, convo_intro, 3, retval) ELSE heap
           h2 == IF args.seconds_permitted # 0
                 THEN ListAppend(h1, convo_intro, SecondsNote(ToString(args.seconds_permitted)))
                 ELSE h1
       IN  heap' = ListAppend(h2, convo_intro, PromptExpectation)
    /\ conversation' = 0
    /\ pc' = "is_expectation"
    /\ UNCHANGED << task_ret, entry, input, script, received, requests, submitted, retval, error,
                    args, convo_intro, intro_at_call, plan, tasks, inflight, calls >>

\* lines 578-586 and 233-255: the expectation exchange on convo_intro itself,
\* then the entry of _estimate_reasonable_time up to its request
IsExpectation ==
    /\ entry = "infoservant" /\ pc = "is_expectation"
    /\ \E o \in PlainReplies :
         LET res == call_gpt(heap, convo_intro, o)
             c   == EnterHelper(res.heap, convo_intro, << PromptTimeEstimate >>)
         IN  /\ Request("is_expectation", heap, convo_intro, o)
             /\ IF res.raised
                THEN /\ Raise("APIError")
                     /\ heap' = res.heap
                     /\ UNCHANGED << conversation, intro_at_call >>
                ELSE /\ heap' = c.heap
                     /\ conversation' = c.ref
                     /\ intro_at_call' = res.heap[convo_intro]
                     /\ pc' = "te_call"
                     /\ error' = "none"
    /\ UNCHANGED << task_ret, entry, input, script, retval, args, convo_intro, plan, tasks,
                    inflight, calls >>

-----------------------------------------------------------------------------
(* _estimate_reasonable_time *)

\* lines 265-271: the estimate read off the discussion
TimedurEst(discuss_timedur) ==
    LET est == strip(split(discuss_timedur, "ANSWER:")[2])
    IN  IF Contains(est, "\n") THEN split1(est, "\n")[1] ELSE est

\* lines 257-271
TeCall ==
    /\ entry = "infoservant" /\ pc = "te_call"
    /\ \E o \in TimeReplies :
         LET res == call_gpt(heap, conversation, o)
         IN  /\ Request("te_call", heap, conversation, o)
             /\ heap' = res.heap
             /\ IF res.raised THEN Raise("APIError") /\ retval' = retval
                ELSE IF ~Contains(res.answer, "ANSWER:")
                THEN Raise("RuntimeError") /\ retval' = retval
                ELSE /\ retval' = TimedurEst(res.answer)
                     /\ pc' = "te_returned"
                     /\ error' = "none"
    /\ UNCHANGED << task_ret, entry, input, script, args, convo_intro, conversation,
                    intro_at_call, plan, tasks, inflight, calls >>

\* lines 587-605 and 383-412: the time allotment recorded in convo_intro, then
\* the entry of _research_cycle up to its first request
AfterTimeEstimate ==
    /\ entry = "infoservant" /\ pc = "te_returned"
    /\ LET h1 == ListAppend(heap, convo_intro, TimeAllotment(retval))
           c  == EnterHelper(h1, convo_intro,
                             << ChronometerNote, PromptBrainstorm(args.serp_api_key) >>)
       IN  /\ heap' = c.heap
           /\ conversation' = c.ref
           /\ intro_at_call' = h1[convo_intro]
    /\ pc' = "rc_brainstorm"
    /\ UNCHANGED << task_ret, entry, input, script, received, requests, submitted, retval, error,
                    args, convo_intro, plan, tasks, inflight, calls >>

-----------------------------------------------------------------------------
(* _research_cycle: the planning *)

Urls == { "", "http://a" }

SerpItems == { [is_dict |-> TRUE, q |-> "coffee"], [is_dict |-> FALSE, q |-> "coffee"] }

ListField(items) == [present |-> TRUE, is_list |-> TRUE, items |-> items]

NotAList == [present |-> TRUE, is_list |-> FALSE, items |-> << >>]

UrlFields == { NoList, NotAList } \cup { ListField(u) : u \in SeqsUpTo(Urls, MaxUrls) }

\* without a SerpApi key the field is not read: one list stands for all
SerpFields(serp_api_key) ==
    IF serp_api_key = ""
    THEN { NoList, ListField(<< [is_dict |-> TRUE, q |-> "coffee"] >>) }
    ELSE { NoList, NotAList } \cup { ListField(c) : c \in SeqsUpTo(SerpItems, MaxSearches) }

\* the planning request fails, or answers with text that is no JSON, or with a
\* JSON object
PlanningReplies(serp_api_key) ==
    { [ok |-> FALSE, valid |-> FALSE, urls |-> NoList, serp |-> NoList],
      [ok |-> TRUE, valid |-> FALSE, urls |-> NoList, serp |-> NoList] }
    \cup { [ok |-> TRUE, valid |-> TRUE, urls |-> u, serp |-> c]
             : u \in UrlFields, c \in SerpFields(serp_api_key) }

NoParams == [present |-> FALSE, q |-> "", api_key |-> "", num |-> 0,
             no_cache |-> FALSE, output |-> ""]

\* lines 469-476: item.update(...)
SerpParams(item, serp_api_key) ==
    [present |-> TRUE, q |-> item.q, api_key |-> serp_api_key, num |-> 5,
     no_cache |-> TRUE, output |-> "json"]

\* a task dict; `keys` holds which of "success", "result", "error" are set
Task(task_type, url, params) ==
    [task_type |-> task_type, url |-> url, params |-> params, keys |-> {},
     success |-> FALSE, result |-> << >>, error |-> "None"]

\* lines 459-461
UrlTasks(nextsteps) ==
    IF nextsteps.urls.present /\ nextsteps.urls.is_list
    THEN [i \in 1..Len(nextsteps.urls.items) |-> Task("url", nextsteps.urls.items[i], NoParams)]
    ELSE << >>

\* serpapi_calls read whether or not there is a SerpApi key
ReadsSerpWithoutKey(nextsteps, serp_api_key) ==
    nextsteps.serp.present /\ nextsteps.serp.is_list

\* lines 463-467: the condition under which serpapi_calls is read
ReadsSerp(nextsteps, serp_api_key) ==
    serp_api_key # "" /\ nextsteps.serp.present /\ nextsteps.serp.is_list

\* lines 468-481
SerpTasks(nextsteps, serp_api_key) ==
    IF ReadsSerp(nextsteps, serp_api_key)
    THEN [i \in 1..Len(nextsteps.serp.items) |->
            Task("serpapi_call", "", SerpParams(nextsteps.serp.items[i], serp_api_key))]
    ELSE << >>

\* line 469 on an item that is no dict: item.update raises
SerpItemNotDict(nextsteps, serp_api_key) ==
    /\ ReadsSerp(nextsteps, serp_api_key)
    /\ \E i \in 1..Len(nextsteps.serp.items) : ~nextsteps.serp.items[i].is_dict

\* lines 458-481
BuildTasks(nextsteps, serp_api_key) ==
    UrlTasks(nextsteps) \o SerpTasks(nextsteps, serp_api_key)

-----------------------------------------------------------------------------
(* _run_one_research_task and _task_results_to_conversation_messages *)

\* the outcome of webpage2content.webpage2content / GoogleSearch(...).get_dict()
FetchOutcomes ==
    { [raised |-> TRUE, result |-> << >>],
      [raised |-> FALSE, result |-> << >>],
      [raised |-> FALSE, result |-> << "page text" >>] }

SearchOutcomes ==
    { [raised |-> TRUE, result |-> << >>],
      [raised |-> FALSE, result |-> << >>],
      [raised |-> FALSE, result |-> << "search_metadata", "organic_results" >>] }

NoOutcome == [raised |-> FALSE, result |-> << >>]

\* lines 316-325
CLEANUP_FIELDS ==
    { "pagination", "serpapi_pagination", "filters", "search_metadata",
      "search_parameters_xxxxxx", "search_information", "knowledge_graph", "inline_videos" }

KeepField(f) == f \notin CLEANUP_FIELDS

\* a task that fails without a record of the error
FailedWithoutError(task, err) ==
    [task EXCEPT !.keys = @ \cup {"success"}, !.success = FALSE]

\* lines 283-284, 292-293, 296-297, 306-307, 313-314
Failed(task, err) ==
    [task EXCEPT !.keys = @ \cup {"success", "error"}, !.success = FALSE, !.error = err]

\* lines 299-300, 329-330
Succeeded(task, result) ==
    [task EXCEPT !.keys = @ \cup {"success", "result"}, !.success = TRUE, !.result = result]

\* lines 281-285, 304-308: the task reaches its external call
NeedsCall(task) ==
    \/ task.task_type = "url" /\ task.url # ""
    \/ task.task_type = "serpapi_call" /\ task.params.present

\* lines 274-333, with the outcome of the external call when one is made
run_one_research_task(task, out) ==
    IF task.task_type = "url"
    THEN IF task.url = "" THEN Failed(task, "URL not provided")
         ELSE IF out.raised THEN Failed(task, "Exception while fetching url")
         ELSE IF out.result = << >> THEN Failed(task, "Fetch produced empty/invalid result")
         ELSE Succeeded(task, out.result)
    ELSE IF task.task_type = "serpapi_call"
    THEN IF ~task.params.present THEN Failed(task, "SerpApi params not provided")
         ELSE IF out.raised THEN Failed(task, "Exception while performing SerpApi query")
         ELSE Succeeded(task, SelectSeq(out.result, KeepField))
    ELSE task

\* lines 285, 294, 298, 301, 308, 315, 331, 333: the value returned
run_one_research_task_returns(task, out) ==
    IF task.task_type = "url"
    THEN IF task.url = "" THEN FALSE
         ELSE IF out.raised THEN FALSE
         ELSE IF out.result = << >> THEN FALSE
         ELSE TRUE
    ELSE IF task.task_type = "serpapi_call"
    THEN IF ~task.params.present THEN FALSE
         ELSE IF out.raised THEN FALSE
         ELSE TRUE
    ELSE FALSE

\* lines 339-362: the message of one task
TaskMessage(task) ==
    LET head == IF task.task_type = "url" THEN << "You browsed URL:", task.url, "\n" >>
                ELSE IF task.task_type = "serpapi_call"
                THEN << "You called SerpApi with these parameters:", task.params.q, "\n" >>
                ELSE << >>
        succ == "success" \in task.keys /\ task.success
    IN  Msg("system",
            IF ~succ
            THEN head \o << "The call failed with the following error:", "\n", task.error >>
            ELSE head \o << "The call succeeded with the following results:" >> \o task.result)

\* lines 336-364
task_results_to_conversation_messages(ts) == [i \in 1..Len(ts) |-> TaskMessage(ts[i])]

\* the task has been run
Ran(task) == "success" \in task.keys

\* tasks that may start in any order, also while a call is in flight
RunnableConcurrently(ts, fl) == { i \in 1..Len(ts) : ~Ran(ts[i]) /\ i \notin fl }

\* lines 484-488: the task the loop runs next: the first one not yet run, once
\* the call of the one before has come back
Runnable(ts, fl) ==
    IF fl # {} THEN {}
    ELSE { i \in 1..Len(ts) : ~Ran(ts[i]) /\ \A j \in 1..(i - 1) : Ran(ts[j]) }

AllRan(ts) == \A i \in 1..Len(ts) : Ran(ts[i])

\* lines 490-508: after the loop
AfterTasks(h, r, ts) ==
    ListAppend(ListExtend(h, r, task_results_to_conversation_messages(ts)), r, PromptReport)

-----------------------------------------------------------------------------
(* _research_cycle *)

\* lines 414-447: the brainstorm exchange, then the planning instructions
RcBrainstorm ==
    /\ entry = "infoservant" /\ pc = "rc_brainstorm"
    /\ \E o \in PlainReplies :
         LET res == call_gpt(heap, conversation, o)
         IN  /\ Request("rc_brainstorm", heap, conversation, o)
             /\ IF res.raised
                THEN Raise("APIError") /\ heap' = res.heap
                ELSE /\ heap' = ListAppend(res.heap, conversation,
                                           PromptPlanning(args.serp_api_key))
                     /\ pc' = "rc_planning"
                     /\ error' = "none"
    /\ UNCHANGED << task_ret, entry, input, script, retval, args, convo_intro, conversation,
                    intro_at_call, plan, tasks, inflight, calls >>

\* lines 449-481 (and 490-508 when no task is planned): the planning request,
\* made without _call_gpt, its JSON, and the tasks
RcPlanning ==
    /\ entry = "infoservant" /\ pc = "rc_planning"
    /\ \E p \in PlanningReplies(args.serp_api_key) :
         LET ts == BuildTasks(p, args.serp_api_key)
         IN  /\ Request("rc_planning", heap, conversation,
                        Outcome(p.ok, IF p.valid THEN << "{...}" >> ELSE << "w" >>, "stop"))
             /\ IF ~p.ok
                THEN Raise("APIError") /\ UNCHANGED << heap, plan, tasks >>
                ELSE IF ~p.valid
                THEN Raise("JSONDecodeError") /\ UNCHANGED << heap, plan, tasks >>
                ELSE /\ plan' = [present |-> TRUE, valid |-> TRUE, urls |-> p.urls,
                                 serp |-> p.serp]
                     /\ IF SerpItemNotDict(p, args.serp_api_key)
                        THEN Raise("AttributeError") /\ UNCHANGED << heap, tasks >>
                        ELSE /\ tasks' = ts
                             /\ error' = "none"
                             /\ IF ts = << >>
                                THEN /\ heap' = AfterTasks(heap, conversation, ts)
                                     /\ pc' = "rc_report"
                                ELSE /\ heap' = heap
                                     /\ pc' = "rc_tasks"
    /\ UNCHANGED << task_ret, entry, input, script, retval, args, convo_intro, conversation,
                    intro_at_call, inflight, calls >>

CallEvent(ev, i, kind) == [ev |-> ev, task |-> i, kind |-> kind]

\* lines 484-488 and 287-290, 310-311: the loop reaches a task and its external
\* call starts
RcTaskStart ==
    /\ entry = "infoservant" /\ pc = "rc_tasks"
    /\ \E i \in Runnable(tasks, inflight) :
         /\ NeedsCall(tasks[i])
         /\ inflight' = inflight \cup {i}
         /\ calls' = Append(calls, CallEvent("start", i, tasks[i].task_type))
    /\ UNCHANGED << task_ret, entry, pc, heap, input, script, received, requests, submitted,
                    retval, error, args, convo_intro, conversation, intro_at_call,
                    plan, tasks >>

\* the tasks after one of them has been run: the loop goes on, or is over
TaskRan(ts) ==
    /\ tasks' = ts
    /\ IF AllRan(ts)
       THEN /\ heap' = AfterTasks(heap, conversation, ts)
            /\ pc' = "rc_report"
       ELSE UNCHANGED << heap, pc >>

\* lines 281-285: a task that fails before any external call
RcTaskNoCall ==
    /\ entry = "infoservant" /\ pc = "rc_tasks"
    /\ \E i \in Runnable(tasks, inflight) :
         /\ ~NeedsCall(tasks[i])
         /\ TaskRan([tasks EXCEPT ![i] = run_one_research_task(@, NoOutcome)])
    /\ UNCHANGED << task_ret, entry, input, script, received, requests, submitted, retval, error,
                    args, convo_intro, conversation, intro_at_call, plan, inflight,
                    calls >>

\* lines 291-301, 312-331: the external call comes back and the outcome is
\* recorded on the task
RcTaskEnd ==
    /\ entry = "infoservant" /\ pc = "rc_tasks"
    /\ \E i \in inflight :
         \E out \in IF tasks[i].task_type = "url" THEN FetchOutcomes ELSE SearchOutcomes :
            /\ inflight' = inflight \ {i}
            /\ calls' = Append(calls, CallEvent("end", i, tasks[i].task_type))
            /\ TaskRan([tasks EXCEPT ![i] = run_one_research_task(@, out)])
    /\ UNCHANGED << task_ret, entry, input, script, received, requests, submitted, retval, error,
                    args, convo_intro, conversation, intro_at_call, plan >>

\* lines 509-516: the report exchange, then exit(0)
RcReport ==
    /\ entry = "infoservant" /\ pc = "rc_report"
    /\ \E o \in PlainReplies :
         LET res == call_gpt(heap, conversation, o)
         IN  /\ Request("rc_report", heap, conversation, o)
             /\ heap' = res.heap
             /\ IF res.raised
                THEN Raise("APIError")
                ELSE pc' = "exited" /\ error' = "SystemExit"
    /\ UNCHANGED << task_ret, entry, input, script, retval, args, convo_intro, conversation,
                    intro_at_call, plan, tasks, inflight, calls >>

-----------------------------------------------------------------------------
(* _run_one_research_task, called directly *)

TaskTypes == { "url", "serpapi_call", "summarize" }

\* the task dicts a caller may pass, none of them run yet
TaskArgs ==
    { Task(t, u, p) : t \in TaskTypes, u \in Urls,
                      p \in { NoParams, SerpParams([is_dict |-> TRUE, q |-> "coffee"], "k") } }

\* the outcomes the task's collaborator can produce
OutcomesOf(task) ==
    IF ~NeedsCall(task) THEN { NoOutcome }
    ELSE IF task.task_type = "url" THEN FetchOutcomes ELSE SearchOutcomes

InitRunTask ==
    /\ entry = "run_one_research_task"
    /\ pc = "rt_start"
    /\ input \in TaskArgs
    /\ tasks = << input >>
    /\ heap = << >>
    /\ script = << >>
    /\ received = << >>
    /\ requests = 0
    /\ submitted = << >>
    /\ retval = << >>
    /\ error = "none"
    /\ args = NoArgs
    /\ convo_intro = 0
    /\ conversation = 0
    /\ intro_at_call = << >>
    /\ plan = NoPlan
    /\ inflight = {}
    /\ calls = << >>
    /\ task_ret = FALSE

\* lines 274-333: the whole call, its external call (if any) included
RunTaskDirect ==
    /\ entry = "run_one_research_task" /\ pc = "rt_start"
    /\ \E out \in OutcomesOf(tasks[1]) :
         /\ tasks' = << run_one_research_task(tasks[1], out) >>
         /\ task_ret' = run_one_research_task_returns(tasks[1], out)
    /\ calls' = IF NeedsCall(tasks[1])
                THEN << CallEvent("start", 1, tasks[1].task_type),
                        CallEvent("end", 1, tasks[1].task_type) >>
                ELSE calls
    /\ pc' = "returned"
    /\ UNCHANGED << entry, heap, input, script, received, requests, submitted, retval,
                    error, args, convo_intro, conversation, intro_at_call, plan,
                    inflight >>


Init == InitCallGpt \/ InitInfoservant \/ InitRunTask

Next ==
    \/ CallGptDirect
    \/ InfoservantStart
    \/ ScIntelligible
    \/ ScAppropriate
    \/ ScRephrase
    \/ AfterSanity
    \/ IsExpectation
    \/ TeCall
    \/ AfterTimeEstimate
    \/ RcBrainstorm
    \/ RcPlanning
    \/ RcTaskStart
    \/ RcTaskNoCall
    \/ RcTaskEnd
    \/ RcReport
    \/ RunTaskDirect

Spec == Init /\ [][Next]_vars

\* The program is one thread of synchronous calls: a step that can be taken is
\* taken (every external call is taken to come back).
FairSpec == Spec /\ WF_vars(Next)

-----------------------------------------------------------------------------
(* Claims about _call_gpt, settled on its direct call *)

\* the direct call is over: it returned or raised
CallOver == entry = "call_gpt" /\ pc \in {"returned", "raised"}

\* the direct call returned a Reply
CallReturned == entry = "call_gpt" /\ pc = "returned"

\* the call got as far as its first request (its list was not empty)
CallRequested == CallOver /\ error # "IndexError"

\* the Transcript the input stands for
Original ==
    CASE input.kind = "str"  -> << Msg("user", input.text) >>
      [] input.kind = "dict" -> << input.msg >>
      [] OTHER               -> input.list

LastOf(s) == s[Len(s)]

\* the scripted endpoint ends its length-flagged replies with a natural stop:
\* replies 1..N-1 carry "length" and reply N = Len(script) does not
NaturalEnd == LastOf(script).ok /\ LastOf(script).finish # "length"

RECURSIVE JoinNewline(_)
JoinNewline(frags) ==
    IF Len(frags) = 0 THEN << >>
    ELSE IF Len(frags) = 1 THEN frags[1]
    ELSE frags[1] \o << "\n" >> \o JoinNewline(Tail(frags))

ScriptFragments == [i \in 1..Len(script) |-> script[i].content]

C3_SingleFragment ==
    (CallRequested /\ script[1].ok /\ script[1].finish # "length") =>
        /\ pc = "returned"
        /\ requests = 1
        /\ retval = strip(script[1].content)

C3_Witness ==
    /\ CallReturned
    /\ script[1].finish = "stop"
    /\ script[1].content = << " ", "w", "\n", "w", " " >>
    /\ retval = << "w", "\n", "w" >>

\* C4, as claimed, for the k = requests - 1 continuation rounds the call made: the
\* Transcript is the original messages followed by k+1 assistant messages
\* alternating with k continuation requests, each assistant body being the
\* fragment the endpoint returned.
ContinuationRequest == Msg("user", << "Please continue from where you left off." >>)

RECURSIVE Alternating(_)
Alternating(outs) ==
    IF Len(outs) = 0 THEN << >>
    ELSE IF Len(outs) = 1 THEN << Msg("assistant", outs[1].content) >>
    ELSE << Msg("assistant", outs[1].content), ContinuationRequest >>
         \o Alternating(Tail(outs))

C5_TemplateUnmodified ==
    (CallOver /\ input.kind = "list") => heap[input.ref] = input.list

\* C5, amended: a list passed to the call is extended in place: after the call
\* returns it holds the messages it held before, unchanged and in place, followed
\* by the one assistant message of the call; it is unmodified when the call raises.
C5_TemplateExtendedInPlace ==
    (CallOver /\ input.kind = "list") =>
        IF pc = "returned"
        THEN /\ Len(heap[input.ref]) = Len(input.list) + 1
             /\ SubSeq(heap[input.ref], 1, Len(input.list)) = input.list
             /\ LastOf(heap[input.ref]) = Msg("assistant", retval)
        ELSE heap[input.ref] = input.list

C5_Witness ==
    /\ CallReturned
    /\ input.kind = "list" /\ Len(input.list) = 2
    /\ Len(heap[input.ref]) = 3

\* C6: what the first request submits is the normal form of the input: one
\* user message holding a bare string, the one message of a role/body pair, a
\* list as it is; and every input with a message to submit is submitted.
C6_Normalized ==
    /\ (entry = "call_gpt" /\ requests >= 1) =>
          /\ input.kind = "str"  => submitted = << [role |-> "user", content |-> input.text] >>
          /\ input.kind = "dict" => submitted = << input.msg >>
          /\ input.kind = "list" => submitted = input.list
    /\ (CallOver /\ ~(input.kind = "list" /\ input.list = << >>)) => requests = 1

C6_Witness ==
    /\ entry = "call_gpt" /\ requests = 1
    /\ input.kind = "str" /\ input.text = << " ", "w" >>
    /\ submitted = << [role |-> "user", content |-> << " ", "w" >>] >>

\* C7: a failed request propagates: the call raises, no further request is
\* issued, no Reply is returned and no assistant message is appended.
C7_FailurePropagates ==
    (CallRequested /\ ~script[1].ok) =>
        /\ pc = "raised" /\ error = "APIError"
        /\ requests = 1
        /\ retval = << >>
        /\ heap[conversation] = Original

C7_Witness ==
    /\ entry = "call_gpt" /\ pc = "raised" /\ error = "APIError"
    /\ requests = 1
    /\ input.kind = "list" /\ Len(input.list) = 2

-----------------------------------------------------------------------------
(* Claims about a run of infoservant *)

SentinelSteps == { "sc_intelligible", "sc_appropriate", "sc_rephrase", "te_call" }

SentinelOf(step) == IF step = "sc_rephrase" THEN "REPHRASE:" ELSE "ANSWER:"

\* request i was the last step of the run: it ended in an error raised to the caller
FatalAt(i) == i = Len(received) /\ pc = "raised"

\* C8, as claimed: whenever the sentinel of an exchange is absent from the reply,
\* or "urls_to_visit" from the planning reply, the exchange ends in a fatal
\* error and no later step runs.
C8_AbsentIsFatal ==
    /\ \A i \in 1..Len(received) :
          ( /\ received[i].ok
            /\ received[i].step \in SentinelSteps
            /\ ~Contains(received[i].content, SentinelOf(received[i].step)) )
          => FatalAt(i)
    /\ (plan.present /\ ~plan.urls.present) =>
          /\ pc = "raised"
          /\ LastOf(received).step = "rc_planning"

\* the sentinel of request i is absent the way the code looks for it: in the
\* upper-cased reply in the intelligibility and appropriateness exchanges, in
\* the reply as written in the rephrase and time-estimate exchanges
AbsentAsRead(i) ==
    LET r == received[i]
    IN  IF r.step \in { "sc_intelligible", "sc_appropriate" }
        THEN \A k \in 1..Len(r.content) : r.content[k] \notin { "ANSWER:", "answer:" }
        ELSE \A k \in 1..Len(r.content) : r.content[k] # SentinelOf(r.step)

\* C8, amended: an exchange ends in a RuntimeError, with no later step run,
\* exactly when its sentinel is absent as the code reads it; a planning reply
\* without "urls_to_visit" is no error: no URL task is planned and the run goes
\* on with the search tasks and the report request.
C8_AbsentSentinelIsFatal ==
    /\ \A i \in 1..Len(received) :
          (received[i].ok /\ received[i].step \in SentinelSteps) =>
              (AbsentAsRead(i) <=> (FatalAt(i) /\ error = "RuntimeError"))
    /\ (plan.present /\ ~plan.urls.present /\ error # "AttributeError") =>
          /\ \A i \in 1..Len(tasks) : tasks[i].task_type # "url"
          /\ \/ pc \in { "rc_tasks", "rc_report", "exited" }
             \/ pc = "raised" /\ error = "APIError" /\ LastOf(received).step = "rc_report"

C8_Witness ==
    /\ plan.present /\ ~plan.urls.present
    /\ pc = "exited"
    /\ Len(tasks) = 1 /\ Ran(tasks[1])

\* the number of URL tasks and of search tasks the planning reply asks for
PlannedUrls == IF plan.urls.present /\ plan.urls.is_list THEN Len(plan.urls.items) ELSE 0

PlannedSearches ==
    IF args.serp_api_key # "" /\ plan.serp.present /\ plan.serp.is_list
    THEN Len(plan.serp.items) ELSE 0

\* C9: the tasks of one planning step are the URL tasks in planned order, then
\* the search tasks in planned order; they run one at a time in that order: at
\* most one external call is in flight, a call starts only when every earlier
\* task has its outcome recorded and no later task has, and each call ends,
\* with its outcome recorded, before the next one starts.
C9_OneAtATime ==
    /\ Cardinality(inflight) <= 1
    /\ \A i \in inflight :
          /\ \A j \in 1..(i - 1) : Ran(tasks[j])
          /\ \A j \in i..Len(tasks) : ~Ran(tasks[j])
    /\ \A k \in 1..Len(calls) :
          /\ (k % 2 = 1) => calls[k].ev = "start"
          /\ (k % 2 = 0) => /\ calls[k].ev = "end"
                            /\ calls[k].task = calls[k - 1].task
                            /\ Ran(tasks[calls[k].task])
          /\ \A l \in 1..(k - 1) :
                (calls[l].ev = "start" /\ calls[k].ev = "start") =>
                    calls[l].task < calls[k].task
    /\ (plan.present /\ error # "AttributeError") =>
          /\ Len(tasks) = PlannedUrls + PlannedSearches
          /\ \A i \in 1..PlannedUrls :
                tasks[i].task_type = "url" /\ tasks[i].url = plan.urls.items[i]
          /\ \A i \in 1..PlannedSearches :
                /\ tasks[PlannedUrls + i].task_type = "serpapi_call"
                /\ tasks[PlannedUrls + i].params.q = plan.serp.items[i].q

C9_Witness ==
    /\ pc = "rc_tasks"
    /\ Len(tasks) = 3
    /\ tasks[3].task_type = "serpapi_call"
    /\ inflight = {3}
    /\ Len(calls) = 5
    /\ tasks[1].success /\ ~tasks[2].success

\* a helper is running, or has just returned to infoservant or raised
HelperSteps ==
    { "sc_intelligible", "sc_appropriate", "sc_rephrase", "te_call",
      "rc_brainstorm", "rc_planning", "rc_tasks", "rc_report" }

InHelper ==
    /\ entry = "infoservant"
    /\ \/ pc \in HelperSteps \cup { "sc_returned", "te_returned", "exited" }
       \/ pc = "raised" /\ received # << >> /\ LastOf(received).step \in HelperSteps

\* C10: while _sanitycheck_user_command, _estimate_reasonable_time or
\* _research_cycle runs, and after it returns or raises, the convo_intro list
\* has the length and the messages it had when the helper was called.
C10_IntroUntouched == InHelper => heap[convo_intro] = intro_at_call

C10_Witness ==
    /\ entry = "infoservant" /\ pc = "exited"
    /\ Len(tasks) = 2
    /\ Len(heap[conversation]) = Len(heap[convo_intro]) + 8
    /\ heap[convo_intro] = intro_at_call

-----------------------------------------------------------------------------
(* Termination of _call_gpt *)

\* the scripted endpoint flags every reply "length"
AlwaysLength ==
    \A i \in 1..Len(script) : script[i].ok /\ script[i].finish = "length"

-----------------------------------------------------------------------------
(* The Transcript of one infoservant invocation *)

\* C12, as claimed: convo_intro is append-only: no step changes the role or the
\* body of a message it holds, or removes one.
C12_AppendOnly ==
    [][ (entry = "infoservant" /\ convo_intro # 0) =>
            /\ Len(heap'[convo_intro]) >= Len(heap[convo_intro])
            /\ \A i \in 1..Len(heap[convo_intro]) :
                  heap'[convo_intro][i] = heap[convo_intro][i] ]_vars

\* C12, amended: convo_intro is append-only but for one overwrite: when the
\* sanity check returns a rephrase that is not empty, the body of the third
\* message, the user's command, is replaced by the rephrase. No message is
\* removed, no role changes and no other body changes.
C12_AppendOnlyButRephrase ==
    [][ (entry = "infoservant" /\ convo_intro # 0) =>
            /\ Len(heap'[convo_intro]) >= Len(heap[convo_intro])
            /\ \A i \in 1..Len(heap[convo_intro]) :
                  \/ heap'[convo_intro][i] = heap[convo_intro][i]
                  \/ /\ i = 3
                     /\ pc = "sc_returned" /\ retval # << >>
                     /\ heap'[convo_intro][i].role = heap[convo_intro][i].role
                     /\ heap'[convo_intro][i].content = retval ]_vars

C12_Witness ==
    /\ entry = "infoservant" /\ pc = "te_call"
    /\ args.seconds_permitted = 30
    /\ heap[convo_intro][3] = [role |-> "user", content |-> << "cmd2" >>]
    /\ Len(heap[convo_intro]) = 6

-----------------------------------------------------------------------------
(* The protocol of _sanitycheck_user_command *)

ScSteps == { "sc_intelligible", "sc_appropriate", "sc_rephrase" }

\* the text after the first x in s
AfterFirst(s, x) == SubSeq(s, FindFrom(s, x, 1) + 1, Len(s))

\* the text between the first x in s and the next x, or the end of s
PieceAfterFirst(s, x) ==
    LET rest == AfterFirst(s, x) IN SubSeq(rest, 1, FindFrom(rest, x, 1) - 1)

\* reply i, read without regard to letter case
Read(i) == upper(received[i].content)

\* reply i has its sentinel and YES somewhere after the first one
YesAfterFirst(i) ==
    Contains(Read(i), "ANSWER:") /\ Contains(AfterFirst(Read(i), "ANSWER:"), "YES")

\* reply i has its sentinel and YES between the first one and the next
YesInFirstPiece(i) ==
    Contains(Read(i), "ANSWER:") /\ Contains(PieceAfterFirst(Read(i), "ANSWER:"), "YES")

\* reply i has its sentinel and the verdict read by Verdict(i) is not YES
SaysNo(i, verdict) == Contains(Read(i), "ANSWER:") /\ ~verdict

\* the text _call_gpt returned for the latest request of the helper
LatestAnswer == heap[conversation][Len(heap[conversation])].content

\* the protocol, with the verdicts of the first two replies read as v1 and v2
SanityProtocol(v1, v2) ==
    entry = "infoservant" =>
        /\ Cardinality({ i \in 1..Len(received) : received[i].step \in ScSteps }) <= 3
        /\ (Len(received) >= 1 /\ received[1].ok /\ SaysNo(1, v1)) =>
              pc = "raised" /\ error = "ValueError" /\ requests = 1
        /\ (Len(received) >= 2 /\ received[2].ok /\ v2) =>
              /\ \A i \in 1..Len(received) : received[i].step # "sc_rephrase"
              /\ Len(received) = 2 =>
                    /\ pc \in { "sc_returned", "is_expectation" }
                    /\ retval = << >>
                    /\ requests = 2
        /\ \A i \in 1..Len(received) :
              received[i].step = "sc_rephrase" =>
                  /\ i = 3
                  /\ received[1].ok /\ v1
                  /\ received[2].ok /\ SaysNo(2, v2)
        /\ ( /\ Len(received) = 3 /\ received[3].step = "sc_rephrase" /\ received[3].ok
             /\ pc # "is_expectation" ) =>
              \/ /\ pc = "sc_returned"
                 /\ Contains(LatestAnswer, "REPHRASE:")
                 /\ retval = strip(AfterFirst(LatestAnswer, "REPHRASE:"))
              \/ /\ pc = "raised" /\ error = "RuntimeError"
                 /\ ~Contains(LatestAnswer, "REPHRASE:")

\* C13, as claimed: the verdict of a reply is YES when YES comes after its
\* (first) "ANSWER:". Without it the intelligibility exchange raises ValueError
\* after exactly 1 request; with it the appropriateness exchange returns the
\* empty string after exactly 2 requests; only an intelligible, inappropriate
\* command makes the 3rd request, which gives the text after the first
\* "REPHRASE:" or a RuntimeError; no path makes more than 3 requests.
C13_Protocol ==
    SanityProtocol(Len(received) >= 1 /\ YesAfterFirst(1),
                   Len(received) >= 2 /\ YesAfterFirst(2))

\* The protocol as lines 147 and 183 have it: the verdict of a reply is read
\* between its first "ANSWER:" and the next "ANSWER:" (or the end of the reply),
\* so that a YES that comes after a second "ANSWER:" does not count.
ProtocolFirstPiece ==
    SanityProtocol(Len(received) >= 1 /\ YesInFirstPiece(1),
                   Len(received) >= 2 /\ YesInFirstPiece(2))

\* a verdict of YES after a repeated sentinel, taken for a NO
RepeatedSentinelReached ==
    /\ entry = "infoservant" /\ pc = "sc_returned"
    /\ requests = 3
    /\ received[2].content = << "w", "ANSWER:", "w", "\n", "ANSWER:", " ", "YES" >>
    /\ retval = << "cmd2" >>


-----------------------------------------------------------------------------
(* C14 *)

\* the task records an outcome: success, and exactly one of result and error,
\* result when it succeeded and error when it failed
OutcomeRecorded(t) ==
    /\ Ran(t)
    /\ t.keys = IF t.success THEN { "success", "result" } ELSE { "success", "error" }
    /\ ~t.success => t.error # "None"

\* C14: _run_one_research_task lets no collaborator failure escape: the call
\* returns, whatever the fetch or the search did. For a task of type "url" or
\* "serpapi_call" it returns the boolean it stored as the task's success, and
\* the task then has exactly one of result (when it succeeded) and error (when
\* it failed); for any other type it returns False and leaves the task as it
\* was. The tasks run by _research_cycle record their outcome the same way.
C14_OutcomeRecorded ==
    /\ entry = "run_one_research_task" =>
          /\ pc \in { "rt_start", "returned" }
          /\ error = "none"
    /\ (entry = "run_one_research_task" /\ pc = "returned") =>
          IF input.task_type \in { "url", "serpapi_call" }
          THEN /\ OutcomeRecorded(tasks[1])
               /\ task_ret = tasks[1].success
          ELSE /\ task_ret = FALSE
               /\ tasks[1] = input
    /\ entry = "infoservant" =>
          \A i \in 1..Len(tasks) :
             /\ Ran(tasks[i]) => OutcomeRecorded(tasks[i])
             /\ (i \notin inflight /\ \E k \in 1..Len(calls) : calls[k].task = i)
                   => Ran(tasks[i])

\* a fetch that raised, returned as a failed task
C14_Witness ==
    /\ entry = "run_one_research_task" /\ pc = "returned"
    /\ input.task_type = "url"
    /\ Len(calls) = 2
    /\ ~task_ret
    /\ tasks[1].error = "Exception while fetching url"


-----------------------------------------------------------------------------
(* C15 *)

\* the place of a request in the order of infoservant's requests
Rank(step) ==
    CASE step = "sc_intelligible" -> 1
      [] step = "sc_appropriate"  -> 2
      [] step = "sc_rephrase"     -> 3
      [] step = "is_expectation"  -> 4
      [] step = "te_call"         -> 5
      [] step = "rc_brainstorm"   -> 6
      [] step = "rc_planning"     -> 7
      [] step = "rc_report"       -> 8
      [] OTHER                    -> 0

\* the run ended with an exception raised before any task could run
RaisedBeforeTasks ==
    /\ pc = "raised"
    /\ received # << >> => LastOf(received).step # "rc_report"

\* C15: in a run of infoservant the external calls come in a fixed order. A
\* command that is no string or is blank raises ValueError with no request
\* issued. The requests are those of the sanity check (intelligibility,
\* appropriateness, then the rephrase if any), then the expectation request,
\* the time-estimate request and the planning requests, each at most once and
\* each only after the one before it; a fetch or a search is made only after
\* the planning request was answered, and the report request only after every
\* task has run. No fetch or search is made in a run in which the sanity
\* check, the time estimate or the planning raised, and no search is made when
\* serp_api_key is empty.
C15_FixedOrder ==
    entry = "infoservant" =>
       /\ (~args.is_str \/ strip(args.command) = << >>) =>
             /\ requests = 0 /\ received = << >> /\ calls = << >>
             /\ pc \in { "is_start", "raised" }
             /\ pc = "raised" => error = "ValueError"
       /\ requests = Len(received)
       /\ \A i \in 1..Len(received) :
             /\ i = 1 => received[i].step = "sc_intelligible"
             /\ i = 2 => received[i].step = "sc_appropriate"
             /\ i > 2 => \/ Rank(received[i].step) = Rank(received[i - 1].step) + 1
                         \/ /\ received[i - 1].step = "sc_appropriate"
                            /\ received[i].step = "is_expectation"
             /\ i < Len(received) => received[i].ok
       /\ calls # << >> =>
             \E i \in 1..Len(received) :
                received[i].step = "rc_planning" /\ received[i].ok
       /\ (\E i \in 1..Len(received) : received[i].step = "rc_report") =>
             inflight = {} /\ AllRan(tasks)
       /\ RaisedBeforeTasks => calls = << >>
       /\ args.serp_api_key = "" =>
             \A k \in 1..Len(calls) : calls[k].kind # "serpapi_call"

\* a whole run: all eight requests, a fetch and a search between the planning
\* and the report
C15_Witness ==
    /\ entry = "infoservant" /\ pc = "exited"
    /\ Len(received) = 8
    /\ args.serp_api_key # ""
    /\ \E k \in 1..Len(calls) : calls[k].kind = "url"
    /\ \E k \in 1..Len(calls) : calls[k].kind = "serpapi_call"

====
